---- MODULE Spec2Model ----
(***************************************************************************)
(* Model of app/isotope_storage.py: the partitioned isotope pattern store  *)
(* (IsotopePatternStorage), its checkpointed generation, the parallel      *)
(* batch generation and the target/decoy FDR subsample.                    *)
(*                                                                         *)
(* Abstractions.  A molecular formula is a number of MF.  A row of a       *)
(* partition file is its mf (adduct is constant per file; mzs and          *)
(* intensities are a function of the row's mf and the file's triple).      *)
(* An optional Python argument is a sequence of length <= 1: <<>> is None. *)
(* list(set) has no defined order in Python; rows are taken ascending.     *)
(* Line 186 subtracts a set from the cached formula table; it is modelled  *)
(* as the set difference of the formulas the comments and line 181 intend. *)
(* A path is the triple it is built from; the names of its components are  *)
(* sequences of characters, formatted and parsed as _path and              *)
(* _configurations do.  The lru_cache of _load_dir is a sequence of        *)
(* entries in order of use; its size is a parameter of the deployment.     *)
(***************************************************************************)
EXTENDS Integers, Sequences, FiniteSets, TLC

\* Number of distinct molecular formulas known to the molecule database.
MaxMF == 2

MF == 1..MaxMF

\* Database ids the store is constructed with (keys of mol_formulas).
DbIds == {1, 2}

\* db_id arguments: None, two known ids, and an id no database has.
DbArgs == {<<>>, <<1>>, <<2>>, <<3>>}

\* The leading entries of DECOY_ADDUCTS.
DECOY_ADDUCTS == <<"+He", "+Li">>

Adducts == {"+H", "+Na", "+He", "+Li"}

\* pts_per_mz values of InstrumentSettings (the first three of compute_all_patterns).
Instruments == {2019, 2885, 4039}

Charges == {1}

VARIABLES
    mf_cache,   \* self._mf_cache: db id (-1 = all) -> set of formulas
    bad,        \* formulas on which ms.isotopePattern raises
    files,      \* partition path -> [st, rows]: the parquet files on disk
    dirs,       \* the pts_*/charge_* directories on disk
    gen,        \* record of the last generate_patterns call (history)
    units,      \* the work items of the running batch_generate, in submit order
    max_workers,\* the size of its ProcessPoolExecutor
    committed,  \* path -> the mf values some finished execution left in the file (history)
    rng,        \* the state of the global generator np.random
    fdr,        \* record of the last load_fdr_subsample call (history)
    cache,      \* the lru_cache of _load_dir: [key, df] entries, least recently used first
    lp,         \* record of the last load_patterns call (history)
    batch       \* outcome of the last batch_generate call and the axes of the running one (history)

vars == <<mf_cache, bad, files, dirs, gen, units, max_workers, committed, rng, fdr,
          cache, lp, batch>>

-----------------------------------------------------------------------------
(* Helpers *)

Range(s) == {s[i] : i \in DOMAIN s}

NoDup(s) == \A i, j \in DOMAIN s : s[i] = s[j] => i = j

Min(S) == CHOOSE x \in S : \A y \in S : x <= y

RECURSIVE AscSeq(_)
AscSeq(S) == IF S = {} THEN <<>> ELSE <<Min(S)>> \o AscSeq(S \ {Min(S)})

Absent == [st |-> "absent", rows |-> <<>>]
Partial == [st |-> "partial", rows |-> <<>>]
Ok(rows) == [st |-> "ok", rows |-> rows]

\* The mf values stored in a file.
RowSet(f) == Range(f.rows)

-----------------------------------------------------------------------------
(* IsotopePatternStorage *)

\* __init__: one entry per database, and -1 for the union of them all.
MfCacheOf(mol_formulas) ==
    [k \in DOMAIN mol_formulas \cup {-1} |->
        IF k = -1 THEN UNION {mol_formulas[d] : d \in DOMAIN mol_formulas}
        ELSE mol_formulas[k]]

DirPath(instr, charge) == <<instr, charge>>

Path(instr, adduct, charge) == <<instr, charge, adduct>>

Paths == {Path(i, a, c) : i \in Instruments, a \in Adducts, c \in Charges}

\* _molecular_formulas: the key looked up in _mf_cache.
DbKey(db_id) == IF db_id = <<>> THEN -1 ELSE db_id[1]

KnownDb(db_id) == DbKey(db_id) \in DOMAIN mf_cache

MolecularFormulas(db_id) == mf_cache[DbKey(db_id)]

\* ms.isotopePattern(mf + adduct) raises for the formulas of bad.
EngineFails(mf) == mf \in bad

-----------------------------------------------------------------------------
(* The lru_cache of _load_dir *)

\* ISOTOPE_CACHE_SIZE of app.config: the maxsize of the lru_cache of _load_dir.
ISOTOPE_CACHE_SIZE == 2

CacheKeys(c) == {c[i].key : i \in DOMAIN c}

CacheHit(c, key) == key \in CacheKeys(c)

CacheGet(c, key) == c[CHOOSE i \in DOMAIN c : c[i].key = key].df

\* s without x, and x after it: x becomes the most recent element.
MoveToEnd(s, x) == SelectSeq(s, LAMBDA y : y # x) \o <<x>>

CacheTouchNone(c, key) == c

\* A hit makes its entry the most recently used one.
CacheTouch(c, key) == MoveToEnd(c, [key |-> key, df |-> CacheGet(c, key)])

\* A miss stores the result, dropping the least recently used entry of a full cache.
CacheInsert(c, key, df) ==
    IF Len(c) >= ISOTOPE_CACHE_SIZE
    THEN Append(Tail(c), [key |-> key, df |-> df])
    ELSE Append(c, [key |-> key, df |-> df])

\* The part of a cached directory table that came from the file at path p.
CachedFile(c, p) ==
    LET df == CacheGet(c, DirPath(p[1], p[2]))
        rows == SelectSeq(df, LAMBDA r : r.adduct = p[3])
    IN  IF rows = <<>> THEN Absent ELSE Ok([i \in DOMAIN rows |-> rows[i].mf])

-----------------------------------------------------------------------------
(* generate_patterns *)

ExistingFileCached(p) ==
    IF CacheHit(cache, DirPath(p[1], p[2])) THEN CachedFile(cache, p) ELSE files[p]

\* lines 178-180: fn names a file, so _load takes the branch of line 85 and
\* reads it from disk; the cache of line 72 is not consulted.
ExistingFile(p) == files[p]

MfFinishedNone(f) == {}

\* lines 176-184: the mf values of the existing file, none when there is no file.
MfFinished(f) == IF f.st = "ok" THEN RowSet(f) ELSE {}

\* line 186
NewMolFormulas(db_id, f) == MolecularFormulas(db_id) \ MfFinished(f)

ValidMfsAll(new) == new

\* lines 195-202: the formulas the engine accepts.
ValidMfs(new) == {mf \in new : ~EngineFails(mf)}

WrittenRowsNoConcat(f, valid) == AscSeq(valid)

\* lines 215-222: the new rows, after the existing ones when there are any.
WrittenRows(f, valid) ==
    IF f.st = "ok" /\ f.rows # <<>> THEN f.rows \o AscSeq(valid) ELSE AscSeq(valid)

\* The file a call leaves behind (lines 188-190 return before writing).
FileAfter(db_id, f) ==
    IF NewMolFormulas(db_id, f) = {} THEN f
    ELSE Ok(WrittenRows(f, ValidMfs(NewMolFormulas(db_id, f))))

\* line 184: the parent directory is made when the file does not exist.
DirsAfter(instr, charge, f) ==
    IF f.st = "absent" THEN dirs \cup {DirPath(instr, charge)} ELSE dirs

GenRecord(p, db_id, f, engine, ret) ==
    [cfg |-> <<p, db_id>>, prev |-> gen.cfg, prevFresh |-> gen.fresh,
     fresh |-> f.st = "absent", before |-> f, disk |-> files[p], engine |-> engine,
     ret |-> ret]

\* One whole sequential call of generate_patterns.
GeneratePatterns(instr, adduct, charge, db_id) ==
    LET p == Path(instr, adduct, charge)
        f == ExistingFile(p)
    IN  /\ f.st # "partial"
        /\ dirs' = DirsAfter(instr, charge, f)
        /\ IF KnownDb(db_id)
           THEN /\ files' = [files EXCEPT ![p] = FileAfter(db_id, f)]
                /\ gen' = GenRecord(p, db_id, f, NewMolFormulas(db_id, f), "ok")
           ELSE \* KeyError at line 94, after the mkdir of line 184
                /\ files' = files
                /\ gen' = GenRecord(p, db_id, f, {}, "KeyError")
        /\ UNCHANGED <<mf_cache, bad, units, max_workers, committed, rng, fdr, cache, lp, batch>>

\* No load_fdr_subsample call yet.
NoFdr == [args |-> <<>>, ret |-> "none", table |-> <<>>, draws |-> 0,
          n_decoy_adducts |-> 0, decoy_mfs |-> {}, n_decoy_rows |-> 0]

-----------------------------------------------------------------------------
(* Sequential generation: the store right after construction, then any     *)
(* sequence of generate_patterns calls for the "+H" and "+He" partitions   *)
(* of one instrument.                                                      *)

GenAdducts == {"+H", "+He"}

GenInstruments == {2019}

NoGen == [cfg |-> <<>>, prev |-> <<>>, prevFresh |-> FALSE, fresh |-> FALSE,
          before |-> Absent, disk |-> Absent, engine |-> {}, ret |-> "none"]

NoLp == [args |-> <<>>, ret |-> "none", hit |-> FALSE, disk |-> <<>>, base |-> <<>>, df |-> <<>>,
         used |-> <<>>]

NoBatch == [ret |-> "none", dbs |-> <<>>, instrs |-> <<>>, pairs |-> <<>>]

InitStore ==
    /\ \E mol_formulas \in [DbIds -> SUBSET MF] : mf_cache = MfCacheOf(mol_formulas)
    /\ bad \in SUBSET MF
    /\ files = [p \in Paths |-> Absent]
    /\ dirs = {}

InitGen ==
    /\ InitStore
    /\ gen = NoGen
    /\ units = <<>>
    /\ max_workers = 0
    /\ committed = [p \in Paths |-> {}]
    /\ rng = 0
    /\ fdr = NoFdr
    /\ cache = <<>>
    /\ lp = NoLp
    /\ batch = NoBatch

NextGen ==
    \E instr \in GenInstruments, adduct \in GenAdducts, charge \in Charges, db_id \in DbArgs :
        GeneratePatterns(instr, adduct, charge, db_id)

SpecGen == InitGen /\ [][NextGen]_vars

-----------------------------------------------------------------------------
(* Claims about sequential generation (SpecGen) *)

\* The last two calls were for the same (instrument, adduct, charge, db).
TwiceInARow == gen.cfg # <<>> /\ gen.prev = gen.cfg

AThenB ==
    /\ gen.cfg # <<>> /\ gen.prev # <<>>
    /\ gen.prev[1] = gen.cfg[1]
    /\ gen.prevFresh
    /\ KnownDb(gen.prev[2]) /\ KnownDb(gen.cfg[2])
    /\ MolecularFormulas(gen.prev[2]) \cap MolecularFormulas(gen.cfg[2]) = {}

GenFailed == gen.engine \cap bad

-----------------------------------------------------------------------------
(* _configurations, instrument_settings, adduct_charge_pairs *)

\* File and directory names are sequences of characters.
DigitChars == <<"0", "1", "2", "3", "4", "5", "6", "7", "8", "9">>

\* The characters of the adduct labels.
AdductChars ==
    [a \in Adducts |->
        CASE a = "+H" -> <<"+", "H">>
          [] a = "+Na" -> <<"+", "N", "a">>
          [] a = "+He" -> <<"+", "H", "e">>
          [] a = "+Li" -> <<"+", "L", "i">>]

RECURSIVE Digits(_)
Digits(n) ==
    IF n < 10 THEN <<DigitChars[n + 1]>>
    ELSE Append(Digits(n \div 10), DigitChars[(n % 10) + 1])

\* "{}".format(n) of an integer.
IntStr(n) == IF n < 0 THEN <<"-">> \o Digits(0 - n) ELSE Digits(n)

\* lines 61 and 65: the three name components of the path of a partition.
PathNames(instr, adduct, charge) ==
    << <<"p", "t", "s", "_">> \o IntStr(instr),
       <<"c", "h", "a", "r", "g", "e", "_">> \o IntStr(charge),
       <<"a", "d", "d", "u", "c", "t", "_">> \o AdductChars[adduct]
           \o <<".", "p", "a", "r", "q", "u", "e", "t">> >>

\* str.split(sep): the pieces of cs between the occurrences of sep.
RECURSIVE Split(_, _)
Split(cs, sep) ==
    IF cs = <<>> THEN << <<>> >>
    ELSE LET rest == Split(Tail(cs), sep)
         IN  IF Head(cs) = sep THEN << <<>> >> \o rest
             ELSE << <<Head(cs)>> \o Head(rest) >> \o Tail(rest)

\* name.split('_')[1]; IndexError when the name has no '_'.
NameField(name) == Split(name, "_")[2]

\* int(cs) accepts an optional sign and decimal digits, and raises
\* ValueError otherwise.
IsInt(cs) ==
    LET ds == IF cs # <<>> /\ Head(cs) = "-" THEN Tail(cs) ELSE cs
    IN  ds # <<>> /\ \A i \in DOMAIN ds : ds[i] \in Range(DigitChars)

RECURSIVE NatOf(_)
NatOf(ds) ==
    IF ds = <<>> THEN 0
    ELSE 10 * NatOf(SubSeq(ds, 1, Len(ds) - 1))
         + (CHOOSE d \in 0..9 : DigitChars[d + 1] = ds[Len(ds)])

IntOf(cs) == IF Head(cs) = "-" THEN 0 - NatOf(Tail(cs)) ELSE NatOf(cs)

\* The adduct label spelled cs (cs itself when it spells none of them).
LabelOf(cs) ==
    IF \E a \in Adducts : AdductChars[a] = cs
    THEN CHOOSE a \in Adducts : AdductChars[a] = cs
    ELSE cs

\* lines 102, 104 and 106: the names parse (two pieces around '_', integers).
ParseFails(names) ==
    \/ \E i \in 1..3 : Len(Split(names[i], "_")) < 2
    \/ ~IsInt(NameField(names[1]))
    \/ ~IsInt(NameField(names[2]))

\* lines 102-107: the record parsed from the names of one file.
ConfigOf(names) ==
    [pts_per_mz |-> IntOf(NameField(names[1])),
     charge |-> IntOf(NameField(names[2])),
     adduct |-> LabelOf(Split(NameField(names[3]), ".")[1])]

\* The partition files the directory walk of lines 101-105 finds.
FilesOnDisk == {p \in Paths : files[p].st # "absent"}

\* lines 100-107: one record per file name found under pts_*/charge_*.
Configurations == {ConfigOf(PathNames(p[1], p[3], p[2])) : p \in FilesOnDisk}

\* A name that does not parse raises; column access on the record-less
\* frame of line 109 raises KeyError.
ConfigurationsFail ==
    \/ \E p \in FilesOnDisk : ParseFails(PathNames(p[1], p[3], p[2]))
    \/ Configurations = {}

InstrumentSettings == {c.pts_per_mz : c \in Configurations}

AdductChargePairs == {<<c.adduct, c.charge>> : c \in Configurations}

\* A set iterated in some order.
RECURSIVE SetToSeq(_)
SetToSeq(S) ==
    IF S = {} THEN <<>>
    ELSE LET x == CHOOSE y \in S : TRUE IN <<x>> \o SetToSeq(S \ {x})

-----------------------------------------------------------------------------
(* batch_generate: the units of work and the worker processes *)

\* multiprocessing.cpu_count() of the machine.
CpuCount == 2

ProductZip(dbs, instrs, pairs) ==
    [k \in 1..Min({Len(dbs), Len(instrs), Len(pairs)}) |->
        [db_id |-> dbs[k], instr |-> instrs[k], adduct |-> pairs[k][1], charge |-> pairs[k][2],
         pc |-> "queued", existing |-> Absent, new |-> {}]]

\* itertools.product of line 239: the rightmost axis advances fastest.
Product(dbs, instrs, pairs) ==
    [k \in 1..(Len(dbs) * Len(instrs) * Len(pairs)) |->
        LET n == k - 1
            pr == pairs[(n % Len(pairs)) + 1]
            ins == instrs[((n \div Len(pairs)) % Len(instrs)) + 1]
            db == dbs[(n \div (Len(pairs) * Len(instrs))) + 1]
        IN  [db_id |-> db, instr |-> ins, adduct |-> pr[1], charge |-> pr[2],
             pc |-> "queued", existing |-> Absent, new |-> {}]]

UnitPath(u) == Path(u.instr, u.adduct, u.charge)

\* A unit a worker process is executing.
Running(u) == u.pc \in {"started", "computing", "writing"}

Finished(u) == u.pc \in {"done", "failed", "killed"}

\* lines 239-247: the product is built (a defaulted axis reads the directory
\* tree) and every element is submitted to the pool.
BatchGenerate(database_ids, instrument_settings_list, adduct_charge_pairs, n_processes) ==
    /\ units = <<>>
    /\ IF (instrument_settings_list = <<>> \/ adduct_charge_pairs = <<>>) /\ ConfigurationsFail
       THEN /\ batch' = [NoBatch EXCEPT !.ret = "KeyError"]
            /\ UNCHANGED <<units, max_workers>>
       ELSE \E dbs \in {IF database_ids = <<>> THEN << <<>> >> ELSE database_ids},
               instrs \in {IF instrument_settings_list = <<>> THEN SetToSeq(InstrumentSettings)
                           ELSE instrument_settings_list},
               pairs \in {IF adduct_charge_pairs = <<>> THEN SetToSeq(AdductChargePairs)
                          ELSE adduct_charge_pairs} :
            /\ units' = Product(dbs, instrs, pairs)
            /\ max_workers' = IF n_processes = <<>> THEN CpuCount ELSE n_processes[1]
            /\ batch' = [ret |-> "running", dbs |-> dbs, instrs |-> instrs, pairs |-> pairs]
    /\ UNCHANGED <<mf_cache, bad, files, dirs, gen, committed, rng, fdr, cache, lp>>

\* A free worker takes the oldest queued work item.
UnitStart(i) ==
    /\ units[i].pc = "queued"
    /\ \A j \in 1..(i - 1) : units[j].pc # "queued"
    /\ Cardinality({j \in DOMAIN units : Running(units[j])}) < max_workers
    /\ units' = [units EXCEPT ![i].pc = "started"]
    /\ UNCHANGED <<mf_cache, bad, files, dirs, gen, max_workers, committed, rng, fdr,
                   cache, lp, batch>>

\* lines 174-190: the existing file is read and the pending formulas computed.
UnitRead(i) ==
    LET u == units[i]
        p == UnitPath(u)
        f == ExistingFile(p)
    IN  /\ u.pc = "started"
        /\ dirs' = DirsAfter(u.instr, u.charge, f)
        /\ IF f.st = "partial" \/ ~KnownDb(u.db_id)
           THEN \* read_table or the _mf_cache lookup raises
                /\ units' = [units EXCEPT ![i].pc = "failed"]
                /\ UNCHANGED committed
           ELSE IF NewMolFormulas(u.db_id, f) = {}
           THEN /\ units' = [units EXCEPT ![i].pc = "done"]
                /\ committed' = [committed EXCEPT ![p] = @ \cup RowSet(f)]
           ELSE /\ units' = [units EXCEPT ![i] = [u EXCEPT !.pc = "computing",
                                 !.existing = f, !.new = NewMolFormulas(u.db_id, f)]]
                /\ UNCHANGED committed
        /\ UNCHANGED <<mf_cache, bad, files, gen, max_workers, rng, fdr, cache, lp, batch>>

\* lines 192-225: the rows are computed and write_table opens the file at the
\* partition path itself for writing, which truncates it.
UnitWriteOpen(i) ==
    /\ units[i].pc = "computing"
    /\ units' = [units EXCEPT ![i].pc = "writing"]
    /\ files' = [files EXCEPT ![UnitPath(units[i])] = Partial]
    /\ UNCHANGED <<mf_cache, bad, dirs, gen, max_workers, committed, rng, fdr, cache, lp, batch>>

\* line 225 returns: the file holds the table of this unit, unless another
\* process is still writing the same file.
UnitWriteClose(i) ==
    LET u == units[i]
        p == UnitPath(u)
        torn == \E j \in DOMAIN units : j # i /\ units[j].pc = "writing" /\ UnitPath(units[j]) = p
    IN  /\ u.pc = "writing"
        /\ units' = [units EXCEPT ![i].pc = "done"]
        /\ \E f \in {Ok(WrittenRows(u.existing, ValidMfs(u.new)))} \cup (IF torn THEN {Partial} ELSE {}) :
               /\ files' = [files EXCEPT ![p] = f]
               /\ committed' = [committed EXCEPT ![p] = @ \cup RowSet(f)]
        /\ UNCHANGED <<mf_cache, bad, dirs, gen, max_workers, rng, fdr, cache, lp, batch>>

\* A worker process is killed: the pool is broken, its other workers are
\* terminated and the queued items fail.
WorkerKilled ==
    /\ \E i \in DOMAIN units : Running(units[i])
    /\ units' = [i \in DOMAIN units |->
                    IF Finished(units[i]) THEN units[i] ELSE [units[i] EXCEPT !.pc = "killed"]]
    /\ UNCHANGED <<mf_cache, bad, files, dirs, gen, max_workers, committed, rng, fdr,
                   cache, lp, batch>>

\* The with block of line 243 ends once every work item has ended.
BatchReturn ==
    /\ units # <<>>
    /\ \A i \in DOMAIN units : Finished(units[i])
    /\ units' = <<>>
    /\ batch' = [NoBatch EXCEPT !.ret = "ok"]
    /\ UNCHANGED <<mf_cache, bad, files, dirs, gen, max_workers, committed, rng, fdr,
                   cache, lp>>

\* The argument lists batch_generate is called with.
BatchDbIds == {<<>>, << <<1>> >>, << <<1>>, <<2>> >>}

BatchInstruments == {<<>>, <<2019>>}

BatchPairs == {<<>>, << <<"+H", 1>> >>, << <<"+H", 1>>, <<"+He", 1>> >>}

BatchProcesses == {<<>>, <<1>>}

\* The store of a batch run: database 1 holds any formula set, database 2 the
\* other formulas.
InitBatch ==
    /\ InitGen
    /\ mf_cache[2] = MF \ mf_cache[1]

NextBatch ==
    \/ \E d \in BatchDbIds, il \in BatchInstruments, ap \in BatchPairs, n \in BatchProcesses :
           BatchGenerate(d, il, ap, n)
    \/ \E i \in DOMAIN units : UnitStart(i)
    \/ \E i \in DOMAIN units : UnitRead(i)
    \/ \E i \in DOMAIN units : UnitWriteOpen(i)
    \/ \E i \in DOMAIN units : UnitWriteClose(i)
    \/ WorkerKilled
    \/ BatchReturn

SpecBatch == InitBatch /\ [][NextBatch]_vars

-----------------------------------------------------------------------------
(* Claims about batch generation (SpecBatch) *)

\* C4: no two units of work that are running at the same time write the same
\* partition file.
C4_DistinctPartitionsInFlight ==
    \A i, j \in DOMAIN units :
        (i # j /\ Running(units[i]) /\ Running(units[j])) =>
            UnitPath(units[i]) # UnitPath(units[j])

\* C5: the file at a partition path is at every moment absent or a complete
\* table (the rows before the call or the rows after it), never a partially
\* written file, also when a worker is killed.
C5_AtomicReplace == \A p \in Paths : files[p].st # "partial"

\* C6: an mf that was in a partition file at the end of some generate_patterns
\* execution is in that partition file in every later state (read here in the
\* code's favour: in every later state where the file is a complete table).
C6_MonotonicGrowth ==
    \A p \in Paths : files[p].st # "partial" => committed[p] \subseteq RowSet(files[p])

\* C19: after any sequence of generate_patterns calls the listing succeeds,
\* also when a directory was left without a partition file;
\* adduct_charge_pairs() is exactly the (adduct, charge) pairs and
\* instrument_settings() exactly the pts_per_mz values of the files on disk;
\* parsing the names _path builds gives back the triple they were built from.
C19_ListingRoundTrip ==
    gen.cfg # <<>> =>
        /\ ~ConfigurationsFail
        /\ AdductChargePairs = {<<p[3], p[2]>> : p \in FilesOnDisk}
        /\ InstrumentSettings = {p[1] : p \in FilesOnDisk}
        /\ \A i \in Instruments, a \in Adducts, c \in {-1, 1} :
               /\ ~ParseFails(PathNames(i, a, c))
               /\ ConfigOf(PathNames(i, a, c)) = [pts_per_mz |-> i, charge |-> c, adduct |-> a]

\* No pts_* directory under the root of the store.
TreeEmpty == dirs = {} /\ \A p \in Paths : files[p].st = "absent"

\* C12: on an empty partition tree instrument_settings() and
\* adduct_charge_pairs() return the empty set without raising, and so a
\* batch_generate call that leaves the instrument and adduct axes to their
\* defaults submits no work and returns normally.
C12_EmptyTreeTolerated ==
    (TreeEmpty /\ batch.ret # "none") =>
        /\ ~ConfigurationsFail
        /\ InstrumentSettings = {}
        /\ AdductChargePairs = {}
        /\ batch.ret # "KeyError"

-----------------------------------------------------------------------------
(* load_patterns: reading a directory of partition files *)

Max(S) == CHOOSE x \in S : \A y \in S : y <= x

\* _load_single_file: the rows of one file as a frame with columns mf, adduct.
LoadSingleFile(p) == [i \in DOMAIN files[p].rows |-> [mf |-> files[p].rows[i], adduct |-> p[3]]]

\* The files p.iterdir() yields for a directory, in the order it yields them.
DirFiles(instr, charge) ==
    SetToSeq({p \in Paths : p[1] = instr /\ p[2] = charge /\ files[p].st # "absent"})

RECURSIVE Concat(_)
Concat(ps) == IF ps = <<>> THEN <<>> ELSE LoadSingleFile(Head(ps)) \o Concat(Tail(ps))

\* The body of _load_dir raises when the directory is empty (pd.concat of
\* nothing) or when a file in it is torn.
LoadDirFails(instr, charge) ==
    \/ DirFiles(instr, charge) = <<>>
    \/ \E p \in Paths : p[1] = instr /\ p[2] = charge /\ files[p].st = "partial"

\* _load of a partition directory raises when the directory is missing
\* (read_table of a path that is no file) or when _load_dir is entered, on a
\* miss, and raises.
LoadFails(instr, charge) ==
    \/ DirPath(instr, charge) \notin dirs
    \/ ~CacheHit(cache, DirPath(instr, charge)) /\ LoadDirFails(instr, charge)

\* The body of _load_dir, lines 76-78.
LoadDir(instr, charge) == Concat(DirFiles(instr, charge))

CachedLoadDirFresh(instr, charge) == LoadDir(instr, charge)

\* What the lru_cache wrapper of _load_dir returns: the stored table on a hit.
CachedLoadDir(instr, charge) ==
    IF CacheHit(cache, DirPath(instr, charge))
    THEN CacheGet(cache, DirPath(instr, charge))
    ELSE LoadDir(instr, charge)

\* The cache after _load(dir_path): a call that raises stores nothing.
CacheAfterLoad(instr, charge) ==
    IF DirPath(instr, charge) \notin dirs THEN cache
    ELSE IF CacheHit(cache, DirPath(instr, charge))
    THEN CacheTouch(cache, DirPath(instr, charge))
    ELSE IF LoadDirFails(instr, charge) THEN cache
    ELSE CacheInsert(cache, DirPath(instr, charge), LoadDir(instr, charge))

MergeKeepAll(df, on, right) == df

\* pd.merge(df, right) on the one shared column on, right holding each key once:
\* the rows of df whose key is in right, grouped by key (groups in the order
\* their keys first appear in df, rows of a group in the order of df), which is
\* the order line 140 relies on.
Merge(df, on, right) ==
    LET keys == [i \in DOMAIN df |-> df[i][on]]
        RECURSIVE order(_)   \* the keys of right, as they first appear in df
        order(k) ==
            IF k = 0 THEN <<>>
            ELSE IF keys[k] \in right /\ \A j \in 1..(k - 1) : keys[j] # keys[k]
                 THEN Append(order(k - 1), keys[k])
                 ELSE order(k - 1)
        RECURSIVE group(_, _)  \* the rows of key x among the first k rows
        group(x, k) ==
            IF k = 0 THEN <<>>
            ELSE IF keys[k] = x THEN Append(group(x, k - 1), df[k]) ELSE group(x, k - 1)
        RECURSIVE build(_)
        build(ks) == IF ks = <<>> THEN <<>> ELSE group(Head(ks), Len(df)) \o build(Tail(ks))
    IN  build(order(Len(df)))

\* line 129: "if not db_id" is taken for None and for 0.
NoDbFilter(db_id) == db_id = <<>> \/ db_id[1] = 0

\* load_patterns, lines 124-132 (LoadFails and an unknown db_id raise).
LoadPatternsFails(instr, charge, db_id) ==
    LoadFails(instr, charge) \/ (~NoDbFilter(db_id) /\ ~KnownDb(db_id))

LoadPatterns(instr, charge, db_id, adducts) ==
    LET df == CachedLoadDir(instr, charge)
        byAdduct == IF adducts # <<>> THEN Merge(df, "adduct", Range(adducts)) ELSE df
    IN  IF NoDbFilter(db_id) THEN byAdduct
        ELSE Merge(byAdduct, "mf", MolecularFormulas(db_id))

-----------------------------------------------------------------------------
(* np.random: a generator with a state, abstracted to a full-period        *)
(* congruential generator on 0..7 (its draws are pairwise distinct over 8  *)
(* consecutive draws, as those of rand() are with probability 1).          *)

RngStates == 0..7

RngStep(s) == (5 * s + 3) % 8

RECURSIVE RngIter(_, _)
RngIter(s, k) == IF k = 0 THEN s ELSE RngIter(RngStep(s), k - 1)

\* np.random.seed(n)
RngSeed(n) == n % 8

\* np.random.rand(n) drawn from state s.
Rand(s, n) == [j \in 1..n |-> RngIter(s, j)]

\* rand(n).argsort()[:k]: the positions of the k smallest draws.
ArgsortHead(v, k) == {j \in DOMAIN v : Cardinality({i \in DOMAIN v : v[i] < v[j]}) < k}

-----------------------------------------------------------------------------
(* load_fdr_subsample *)

\* lines 137-138: "if random_seed" is false for None and for 0.
SeededState(random_seed, s) ==
    IF random_seed # <<>> /\ random_seed[1] # 0 THEN RngSeed(random_seed[1]) ELSE s

\* df[mask]: the rows of df at the true positions of a boolean mask.
Pick(df, mask) ==
    LET RECURSIVE pick(_)
        pick(k) == IF k = 0 THEN <<>>
                   ELSE IF mask[k] THEN Append(pick(k - 1), df[k]) ELSE pick(k - 1)
    IN  pick(Len(df))

\* _select_decoys, lines 154-159, drawing from state s: row pos of decoy_df is
\* marked when it lies in one of the n_mf blocks of n_decoy_adducts rows and its
\* draw is among the decoys_per_target smallest of the block.
SelectDecoys(s, n_rows, n_mf, n_decoy_adducts, decoys_per_target) ==
    LET sub_selection(i) ==
            ArgsortHead(Rand(RngIter(s, i * n_decoy_adducts), n_decoy_adducts),
                        decoys_per_target)
        RECURSIVE selection(_)
        selection(pos) ==
            IF pos = 0 THEN <<>>
            ELSE Append(selection(pos - 1),
                        /\ (pos - 1) \div n_decoy_adducts < n_mf
                        /\ ((pos - 1) % n_decoy_adducts) + 1
                               \in sub_selection((pos - 1) \div n_decoy_adducts))
    IN  selection(n_rows)

AssertSkipped(decoys_per_target, n_decoy_adducts) == TRUE

\* line 147
AssertHolds(decoys_per_target, n_decoy_adducts) == decoys_per_target <= n_decoy_adducts

KeepAll(row, target_adducts) == TRUE

\* line 166: a decoy row is kept when some target column is true.
KeepDecoy(row, target_adducts) ==
    \E k \in DOMAIN target_adducts : row.cols[target_adducts[k]]

\* lines 154-167 for the frames of line 144, drawing from state s.
Subsample(s, target_df, decoy_df, target_adducts, decoys_per_target) ==
    LET names == Range(target_adducts)
        n_decoy_adducts == Cardinality({decoy_df[i].adduct : i \in DOMAIN decoy_df})
        n_mf == Len(decoy_df) \div n_decoy_adducts
        per == n_mf * n_decoy_adducts
        RECURSIVE columns(_)   \* the selections of lines 161-163, in list order
        columns(k) ==
            IF k = 0 THEN <<>>
            ELSE Append(columns(k - 1),
                        SelectDecoys(RngIter(s, (k - 1) * per), Len(decoy_df),
                                     n_mf, n_decoy_adducts, decoys_per_target))
        column == columns(Len(target_adducts))
        \* the column of a name is the one assigned last
        last(a) == Max({k \in DOMAIN target_adducts : target_adducts[k] = a})
        RECURSIVE targets(_)
        targets(i) ==
            IF i = 0 THEN <<>>
            ELSE Append(targets(i - 1),
                        [mf |-> target_df[i].mf, adduct |-> target_df[i].adduct,
                         is_target |-> TRUE, cols |-> [a \in names |-> FALSE]])
        RECURSIVE decoys(_)
        decoys(i) ==
            IF i = 0 THEN <<>>
            ELSE Append(decoys(i - 1),
                        [mf |-> decoy_df[i].mf, adduct |-> decoy_df[i].adduct,
                         is_target |-> FALSE,
                         cols |-> [a \in names |-> column[last(a)][i]]])
        marked == decoys(Len(decoy_df))
        kept == [i \in DOMAIN decoy_df |-> KeepDecoy(marked[i], target_adducts)]
    IN  [table |-> targets(Len(target_df)) \o Pick(marked, kept),
         draws |-> Len(target_adducts) * per]

LoadFdrSubsample(instr, charge, db_id, target_adducts, decoy_adducts, decoys_per_target, random_seed) ==
    LET s == SeededState(random_seed, rng)
        args == [instr |-> instr, charge |-> charge, db_id |-> db_id,
                 target_adducts |-> target_adducts, decoy_adducts |-> decoy_adducts,
                 decoys_per_target |-> decoys_per_target, random_seed |-> random_seed]
        Fail(ret, n, mfs, rows) ==
            /\ rng' = s
            /\ fdr' = [args |-> args, ret |-> ret, table |-> <<>>, draws |-> 0,
                       n_decoy_adducts |-> n, decoy_mfs |-> mfs, n_decoy_rows |-> rows]
    IN  /\ IF LoadPatternsFails(instr, charge, db_id)
           THEN Fail("LoadError", 0, {}, 0)
           ELSE \E df \in {LoadPatterns(instr, charge, db_id, target_adducts \o decoy_adducts)} :
                \E is_target \in {[i \in DOMAIN df |-> df[i].adduct \in Range(target_adducts)]} :
                \E target_df \in {Pick(df, is_target)},
                   decoy_df \in {Pick(df, [i \in DOMAIN df |-> ~is_target[i]])} :
                LET n == Cardinality({decoy_df[i].adduct : i \in DOMAIN decoy_df})
                    mfs == {decoy_df[i].mf : i \in DOMAIN decoy_df}
                IN  IF target_df = <<>> \/ decoy_df = <<>>
                    THEN \* line 144 unpacks fewer than two groups
                         Fail("ValueError", n, mfs, Len(decoy_df))
                    ELSE IF ~AssertHolds(decoys_per_target, n)
                    THEN Fail("AssertionError", n, mfs, Len(decoy_df))
                    ELSE \E out \in {Subsample(s, target_df, decoy_df, target_adducts,
                                                decoys_per_target)} :
                         /\ rng' = RngIter(s, out.draws)
                         /\ fdr' = [args |-> args, ret |-> "ok", table |-> out.table,
                                    draws |-> out.draws, n_decoy_adducts |-> n,
                                    decoy_mfs |-> mfs, n_decoy_rows |-> Len(decoy_df)]
        /\ cache' = CacheAfterLoad(instr, charge)
        /\ UNCHANGED <<mf_cache, bad, files, dirs, gen, units, max_workers, committed, lp, batch>>

\* Any other use of np.random in the process between two calls.
ConsumeRandom ==
    /\ rng' = RngStep(rng)
    /\ UNCHANGED <<mf_cache, bad, files, dirs, gen, units, max_workers, committed, fdr,
                   cache, lp, batch>>

-----------------------------------------------------------------------------
(* FDR subsampling over a store that generation has filled: every file of  *)
(* pts_2019/charge_1 is absent or holds rows in ascending mf: the target   *)
(* files and "+He" those of all formulas, "+Li" those of any set.          *)

FdrInstrument == 2019

FdrTargets == {<<"+H", "+Na">>}

FdrDbArgs == {<<0>>, <<1>>}

FdrSeeds == {<<>>, <<0>>, <<42>>}

FdrFile(S) == {Absent} \cup {Ok(AscSeq(T)) : T \in S}

InitFdr ==
    /\ \E S \in {MF, MF \ {1}} : mf_cache = MfCacheOf([d \in DbIds |-> IF d = 1 THEN S ELSE {}])
    /\ bad = {}
    /\ \E h \in FdrFile({MF}), he \in FdrFile({MF}), li \in FdrFile(SUBSET MF) :
           files = [p \in Paths |->
                       IF p[1] # FdrInstrument THEN Absent
                       ELSE CASE p[3] \in {"+H", "+Na"} -> h
                              [] p[3] = "+He" -> he
                              [] OTHER -> li]
    /\ dirs = {DirPath(FdrInstrument, 1)}
    /\ gen = NoGen
    /\ units = <<>>
    /\ max_workers = 0
    /\ committed = [p \in Paths |-> {}]
    /\ rng \in RngStates
    /\ fdr = NoFdr
    /\ cache = <<>>
    /\ lp = NoLp
    /\ batch = NoBatch

NextFdr ==
    \/ \E db_id \in FdrDbArgs, target_adducts \in FdrTargets,
          decoys_per_target \in 1..Len(DECOY_ADDUCTS), random_seed \in FdrSeeds :
           LoadFdrSubsample(FdrInstrument, 1, db_id, target_adducts, DECOY_ADDUCTS,
                            decoys_per_target, random_seed)
    \/ ConsumeRandom

SpecFdr == InitFdr /\ [][NextFdr]_vars

-----------------------------------------------------------------------------
(* Claims about the FDR subsample (SpecFdr) *)

\* The decoy rows of the returned table marked for target adduct t with formula mf.
Marked(t, mf) ==
    {i \in DOMAIN fdr.table :
        ~fdr.table[i].is_target /\ fdr.table[i].mf = mf /\ fdr.table[i].cols[t]}

\* Every formula of the loaded decoy rows has one row per decoy adduct present.
OneRowPerDecoyAdduct ==
    fdr.n_decoy_rows = Cardinality(fdr.decoy_mfs) * fdr.n_decoy_adducts

\* C7: when decoys_per_target <= the number of decoy adducts present (the call
\* returned a table), every target adduct column marks exactly decoys_per_target
\* decoy rows of every formula, with and without a database filter (read here in
\* the code's favour: for tables where each formula has one row per decoy adduct).
C7_ExactDecoyCount ==
    (fdr.ret = "ok" /\ OneRowPerDecoyAdduct) =>
        \A t \in Range(fdr.args.target_adducts), mf \in fdr.decoy_mfs :
            Cardinality(Marked(t, mf)) = fdr.args.decoys_per_target

\* C8: in every returned table each decoy row has some target adduct column
\* true and each target row has every target adduct column false.
C8_DecoyCoverage ==
    fdr.ret = "ok" =>
        \A i \in DOMAIN fdr.table :
            LET row == fdr.table[i]
            IN  IF row.is_target
                THEN \A t \in Range(fdr.args.target_adducts) : ~row.cols[t]
                ELSE \E t \in Range(fdr.args.target_adducts) : row.cols[t]

\* Witness of C8: a returned table with target rows and decoy rows, from which
\* an unselected decoy row was dropped.
C8_Witness ==
    /\ fdr.ret = "ok"
    /\ \E i \in DOMAIN fdr.table : fdr.table[i].is_target
    /\ \E i \in DOMAIN fdr.table : ~fdr.table[i].is_target
    /\ Cardinality({i \in DOMAIN fdr.table : ~fdr.table[i].is_target}) < fdr.n_decoy_rows

\* C9: a call with the same inputs and the same non-null seed as the call
\* before it returns the same table, whatever was drawn from np.random between.
C9_SeedDeterminism ==
    [][(/\ fdr.ret # "none"
        /\ fdr'.args = fdr.args
        /\ fdr.args.random_seed # <<>>)
          => (fdr'.ret = fdr.ret /\ fdr'.table = fdr.table)]_vars

\* C10: when decoys_per_target exceeds the number of distinct decoy adducts in
\* the loaded decoy rows, the call raises, returns no table and has drawn no
\* random number.
C10_FailsBeforeSampling ==
    (fdr.ret \notin {"none", "LoadError"}
        /\ fdr.args.decoys_per_target > fdr.n_decoy_adducts) =>
            /\ fdr.ret \in {"AssertionError", "ValueError"}
            /\ fdr.table = <<>>
            /\ fdr.draws = 0

\* Witness of C10: the assertion of line 147 has failed.
C10_Witness ==
    /\ fdr.ret = "AssertionError"
    /\ fdr.args.decoys_per_target > fdr.n_decoy_adducts
    /\ fdr.n_decoy_adducts > 0

-----------------------------------------------------------------------------
(* load_patterns as a call: the directory is read through the cache, the   *)
(* optional filters are applied and the outcome is recorded.  adducts is   *)
(* None (<<>>) or a list (<<list>>); line 126 takes None and the empty     *)
(* list alike.                                                             *)

LoadPatternsCall(instr, charge, db_id, adducts) ==
    LET key == DirPath(instr, charge)
        args == [instr |-> instr, charge |-> charge, db_id |-> db_id, adducts |-> adducts]
        list == IF adducts = <<>> THEN <<>> ELSE adducts[1]
        returns == NoDbFilter(db_id) \/ KnownDb(db_id)
    IN  /\ cache' = CacheAfterLoad(instr, charge)
        /\ IF LoadFails(instr, charge)
           THEN lp' = [NoLp EXCEPT !.args = args, !.ret = "LoadError", !.used = lp.used]
           ELSE \E base \in {CachedLoadDir(instr, charge)} :
                lp' = [args |-> args,
                       ret |-> IF returns THEN "ok" ELSE "KeyError",
                       hit |-> CacheHit(cache, key),
                       disk |-> IF LoadDirFails(instr, charge) THEN <<>>
                                ELSE LoadDir(instr, charge),
                       base |-> base,
                       df |-> IF returns THEN LoadPatterns(instr, charge, db_id, list) ELSE <<>>,
                       used |-> MoveToEnd(lp.used, key)]
        /\ UNCHANGED <<mf_cache, bad, files, dirs, gen, units, max_workers, committed, rng, fdr,
                       batch>>

-----------------------------------------------------------------------------
(* Queries interleaved with generation on one directory: database 1 holds  *)
(* formula 1, database 2 all formulas, the engine accepts every formula.   *)

LoadInstrument == 2019

LoadGenDbArgs == {<<1>>, <<2>>}

\* db_id of a query: None, 0, a known id and an id no database has.
LoadDbArgs == {<<>>, <<0>>, <<1>>, <<3>>}

\* adducts of a query: None, the empty list and a list of one adduct.
LoadAdductArgs == {<<>>, << <<>> >>, << <<"+H">> >>}

InitLoad ==
    /\ InitGen
    /\ mf_cache = MfCacheOf([d \in DbIds |-> IF d = 1 THEN {1} ELSE MF])
    /\ bad = {}

NextLoad ==
    \/ \E adduct \in GenAdducts, db_id \in LoadGenDbArgs :
           GeneratePatterns(LoadInstrument, adduct, 1, db_id)
    \/ \E db_id \in LoadDbArgs, adducts \in LoadAdductArgs :
           LoadPatternsCall(LoadInstrument, 1, db_id, adducts)

SpecLoad == InitLoad /\ [][NextLoad]_vars

-----------------------------------------------------------------------------
(* Queries over a filled store of several directories: each directory of   *)
(* charge 1 exists and holds no file or one "+H" file.                     *)

InitCache ==
    /\ mf_cache = MfCacheOf([d \in DbIds |-> MF])
    /\ bad = {}
    /\ \E filled \in SUBSET Instruments :
           files = [p \in Paths |->
                       IF p[1] \in filled /\ p[3] = "+H" THEN Ok(AscSeq(MF)) ELSE Absent]
    /\ dirs = {DirPath(i, 1) : i \in Instruments}
    /\ gen = NoGen
    /\ units = <<>>
    /\ max_workers = 0
    /\ committed = [p \in Paths |-> {}]
    /\ rng = 0
    /\ fdr = NoFdr
    /\ cache = <<>>
    /\ lp = NoLp
    /\ batch = NoBatch

NextCache ==
    \E instr \in Instruments, db_id \in {<<>>, <<1>>} : LoadPatternsCall(instr, 1, db_id, <<>>)

SpecCache == InitCache /\ [][NextCache]_vars

-----------------------------------------------------------------------------
(* Claims about queries (SpecLoad, SpecCache) *)

\* The last load_patterns call named a database id the store was not built with.
UnknownDbQueried ==
    lp.args # <<>> /\ ~NoDbFilter(lp.args.db_id) /\ ~KnownDb(lp.args.db_id)

\* C11: a load_patterns call whose db_id is none of the store's databases, on
\* an (instrument, charge) directory that exists and can be read, returns a
\* table with no rows; it does not raise.
C11_UnknownDbYieldsNoRows ==
    (UnknownDbQueried /\ lp.ret # "LoadError") => (lp.ret = "ok" /\ lp.df = <<>>)

\* The keys of the cache, least recently used first.
CacheOrder == [i \in DOMAIN cache |-> cache[i].key]

\* The n most recent elements of s, oldest first.
LastN(s, n) == IF Len(s) <= n THEN s ELSE SubSeq(s, Len(s) - n + 1, Len(s))

\* C13: after any sequence of load_patterns calls the cache of loaded
\* directories holds at most ISOTOPE_CACHE_SIZE entries, and they are the
\* most recently used directories (a hit counts as a use): the entry a miss
\* pushes out of a full cache is the least recently used one.
C13_LruBound ==
    /\ Len(cache) <= ISOTOPE_CACHE_SIZE
    /\ CacheOrder = LastN(lp.used, ISOTOPE_CACHE_SIZE)

\* A miss on a full cache has just pushed an entry out.
C13_Witness ==
    /\ lp.ret = "ok" /\ ~lp.hit
    /\ Len(lp.used) > ISOTOPE_CACHE_SIZE
    /\ Len(cache) = ISOTOPE_CACHE_SIZE
    /\ lp.used[1] \notin CacheKeys(cache)

\* The partition file and the database of the last generate_patterns call.
GenPath == gen.cfg[1]

GenDb == gen.cfg[2]

DbKeeps(r) ==
    \/ lp.args.db_id = <<>>
    \/ lp.args.db_id[1] = 0
    \/ r.mf \in mf_cache[lp.args.db_id[1]]

\* The positions of the loaded table that pass both filters, the adduct
\* filter applying when restricted holds.
Kept(restricted) ==
    {i \in DOMAIN lp.base :
        /\ DbKeeps(lp.base[i])
        /\ restricted => lp.base[i].adduct \in Range(lp.args.adducts[1])}

\* The returned table holds exactly the rows of the loaded table at the kept
\* positions.
ReturnsKept(restricted) ==
    /\ Range(lp.df) = {lp.base[i] : i \in Kept(restricted)}
    /\ Len(lp.df) = Cardinality(Kept(restricted))

\* C15 as stated: a load_patterns call that returns yields exactly the loaded
\* rows whose mf is in the set of the database (all loaded rows for db_id None
\* or 0), restricted to the rows whose adduct is in adducts whenever that list
\* is given.
C15_FilterWhenGiven == lp.ret = "ok" => ReturnsKept(lp.args.adducts # <<>>)

\* C15 amended: the same, the adduct restriction applying when adducts is a
\* non-empty list; None and the empty list both leave the adducts unrestricted.
C15_FilterWhenNonEmpty ==
    lp.ret = "ok" => ReturnsKept(lp.args.adducts # <<>> /\ lp.args.adducts[1] # <<>>)

\* A call with a known non-zero db_id and a list of adducts returned rows,
\* after dropping a loaded row for its mf and another for its adduct.
C15_Witness ==
    /\ lp.ret = "ok" /\ lp.df # <<>>
    /\ lp.args.db_id # <<>> /\ lp.args.db_id[1] \in DbIds
    /\ lp.args.adducts # <<>> /\ lp.args.adducts[1] # <<>>
    /\ \E i \in DOMAIN lp.base : ~DbKeeps(lp.base[i])
    /\ \E i \in DOMAIN lp.base : lp.base[i].adduct \notin Range(lp.args.adducts[1])

\* The directory the last load_patterns call read.
LpKey == DirPath(lp.args.instr, lp.args.charge)

\* C17: the cache entry of a directory is not invalidated by generation: as
\* long as the entry stays in the cache its table is the one first loaded,
\* whatever generate_patterns writes into the directory, and a load_patterns
\* call on the directory is served that table.
C17_EntrySurvivesGeneration ==
    [][\A instr \in Instruments, charge \in Charges :
          CacheHit(cache, DirPath(instr, charge)) =>
              /\ CacheHit(cache', DirPath(instr, charge)) =>
                     CacheGet(cache', DirPath(instr, charge)) = CacheGet(cache, DirPath(instr, charge))
              /\ (lp' # lp /\ lp'.args.instr = instr /\ lp'.args.charge = charge) =>
                     /\ lp'.ret # "LoadError"
                     /\ lp'.base = CacheGet(cache, DirPath(instr, charge))]_vars

\* A call was served, from the cache, a table other than the one the files
\* of the directory held when it was made: generation had rewritten or added
\* a file since the directory was loaded.
C17_Witness ==
    /\ lp.ret = "ok" /\ lp.hit
    /\ lp.disk # <<>>
    /\ lp.base # lp.disk
    /\ CacheGet(cache, LpKey) = lp.base

-----------------------------------------------------------------------------
(* batch_generate under fair scheduling: no worker process is killed, a    *)
(* free worker starts the oldest queued item, a started item takes its     *)
(* next step, and the with block ends once every item has ended.  Database *)
(* 1 holds formula 1 and database 2 all formulas; 3 is no database, so its *)
(* items fail.                                                             *)

PoolDbIds == {<< <<3>>, <<1>> >>, << <<1>>, <<2>> >>}

PoolInstruments == {<<>>, <<2019>>}

PoolPairs == {<<>>, << <<"+H", 1>>, <<"+He", 1>> >>}

InitPool ==
    /\ InitGen
    /\ mf_cache = MfCacheOf([d \in DbIds |-> IF d = 1 THEN {1} ELSE MF])
    /\ bad \in {{}, {1}}

NextPool ==
    \/ \E d \in PoolDbIds, il \in PoolInstruments, ap \in PoolPairs, n \in BatchProcesses :
           BatchGenerate(d, il, ap, n)
    \/ \E i \in DOMAIN units : UnitStart(i)
    \/ \E i \in DOMAIN units : UnitRead(i)
    \/ \E i \in DOMAIN units : UnitWriteOpen(i)
    \/ \E i \in DOMAIN units : UnitWriteClose(i)
    \/ BatchReturn

SpecPool ==
    /\ InitPool
    /\ [][NextPool]_vars
    /\ WF_vars(\E i \in DOMAIN units : UnitStart(i))
    /\ WF_vars(\E i \in DOMAIN units : UnitRead(i))
    /\ WF_vars(\E i \in DOMAIN units : UnitWriteOpen(i))
    /\ WF_vars(\E i \in DOMAIN units : UnitWriteClose(i))
    /\ WF_vars(BatchReturn)

\* The work items submitted for one element of the product of the axes.
UnitsFor(db, instr, pair) ==
    {i \in DOMAIN units :
        /\ units[i].db_id = db /\ units[i].instr = instr
        /\ units[i].adduct = pair[1] /\ units[i].charge = pair[2]}

\* Exactly one work item per element of the product of the axes of the call.
OneUnitPerElement ==
    /\ Len(units) = Len(batch.dbs) * Len(batch.instrs) * Len(batch.pairs)
    /\ \A i \in DOMAIN batch.dbs, j \in DOMAIN batch.instrs, k \in DOMAIN batch.pairs :
           Cardinality(UnitsFor(batch.dbs[i], batch.instrs[j], batch.pairs[k])) = 1

\* C18: batch_generate submits exactly one unit of work per element of the
\* product of its argument lists; under fair scheduling of the workers and a
\* terminating engine every submitted unit ends, whether or not another one
\* failed, and batch_generate returns, which it does only once every unit
\* has ended.
C18_AllUnitsRunThenReturn ==
    /\ [](batch.ret = "running" => OneUnitPerElement)
    /\ [][(batch.ret = "running" /\ batch'.ret # "running") =>
              (batch'.ret = "ok" /\ \A i \in DOMAIN units : Finished(units[i]))]_vars
    /\ [](Len(units) <= 4)
    /\ \A n \in 1..4 :
           (batch.ret = "running" /\ Len(units) >= n) ~>
               (batch.ret = "running" /\ Len(units) >= n /\ Finished(units[n]))
    /\ (batch.ret = "running") ~> (batch.ret = "ok")

\* Every unit of a call has ended: one of them failed, and a unit submitted
\* after it ran to the end and wrote its file.
C18_Witness ==
    /\ batch.ret = "running"
    /\ \A i \in DOMAIN units : Finished(units[i])
    /\ \E i, j \in DOMAIN units :
           /\ i < j
           /\ units[i].pc = "failed"
           /\ units[j].pc = "done"
           /\ files[UnitPath(units[j])].st = "ok"

-----------------------------------------------------------------------------
====
